---- MODULE Spec2Model ----
(***************************************************************************)
(* pachyderm (src/index.js): a directory tree is turned into the text of   *)
(* an index.js whose nested object mirrors the directories and whose       *)
(* leaves are lazy `require` getters.                                      *)
(*                                                                         *)
(* JavaScript strings are sequences of one-character strings, so that      *)
(* split, slice, camelCase, JSON.stringify and the regular expression of   *)
(* convertToLazyRequireJson are computed character by character.           *)
(* JavaScript values are records [t, s, kv]: t = "str" (s the characters), *)
(* t = "obj" (kv the own properties, in own-property order) or             *)
(* t = "undef".                                                            *)
(***************************************************************************)
EXTENDS Integers, Sequences, FiniteSets, TLC

VARIABLES
    sep,        \* path.sep of the host: "/" or "\\"
    exports,    \* module.exports of src/index.js (the process-wide rules)
    json,       \* the tree filenameToJson mutates (tree builder runs)
    threw,      \* TRUE once a call of filenameToJson threw a TypeError
    hist,       \* the paths handed to filenameToJson so far, in order, as lists of segments
    run,        \* per call of go: its closure (json, oldRules, directory) and position
    writes,     \* fs.writeFile calls made so far: [by, to, data]
    logged,     \* console.log calls made so far: [by, output]
    jsonString, \* the text handed to convertToLazyRequireJson
    lazyJson    \* the text it returned, as a value (Undefined before the call)

vars == <<sep, exports, json, threw, hist, run, writes, logged, jsonString, lazyJson>>

(***************************************************************************)
(* Characters and strings                                                  *)
(***************************************************************************)

\* The characters used, in ascending UTF-16 code unit order.
Ascii ==
    << "\n", " ", "\"", "'", "(", ")", "*", ",", "-", ".", "/",
       "0", "1", "2", "3", "4", "5", "6", "7", "8", "9", ":", ";", "=",
       "A", "B", "C", "D", "E", "F", "G", "H", "I", "J", "K", "L", "M",
       "N", "O", "P", "Q", "R", "S", "T", "U", "V", "W", "X", "Y", "Z",
       "[", "\\", "]", "_",
       "a", "b", "c", "d", "e", "f", "g", "h", "i", "j", "k", "l", "m",
       "n", "o", "p", "q", "r", "s", "t", "u", "v", "w", "x", "y", "z",
       "{", "}" >>

Range(f) == { f[i] : i \in DOMAIN f }

Code == [ c \in Range(Ascii) |-> CHOOSE i \in DOMAIN Ascii : Ascii[i] = c ]

Lowers == << "a", "b", "c", "d", "e", "f", "g", "h", "i", "j", "k", "l", "m",
             "n", "o", "p", "q", "r", "s", "t", "u", "v", "w", "x", "y", "z" >>
Uppers == << "A", "B", "C", "D", "E", "F", "G", "H", "I", "J", "K", "L", "M",
             "N", "O", "P", "Q", "R", "S", "T", "U", "V", "W", "X", "Y", "Z" >>
Digits == << "0", "1", "2", "3", "4", "5", "6", "7", "8", "9" >>

IsLower(c) == c \in Range(Lowers)
IsUpper(c) == c \in Range(Uppers)
IsDigit(c) == c \in Range(Digits)
\* \w of a JavaScript regular expression
IsWordChar(c) == IsLower(c) \/ IsUpper(c) \/ IsDigit(c) \/ c = "_"

ToLowerChar(c) == IF IsUpper(c) THEN Lowers[CHOOSE i \in DOMAIN Uppers : Uppers[i] = c] ELSE c
ToUpperChar(c) == IF IsLower(c) THEN Uppers[CHOOSE i \in DOMAIN Lowers : Lowers[i] = c] ELSE c
ToLowerCase(s) == [ i \in DOMAIN s |-> ToLowerChar(s[i]) ]

\* s.slice(from) for from >= 0, as a 1-based suffix
Drop(s, n) == SubSeq(s, n + 1, Len(s))
\* s.slice(0, -n)
SliceOffEnd(s, n) == SubSeq(s, 1, Len(s) - n)
\* s.slice(-n)
SliceLast(s, n) == IF Len(s) <= n THEN s ELSE SubSeq(s, Len(s) - n + 1, Len(s))

\* t occurs in s at 1-based position i
OccursAt(s, t, i) == i >= 1 /\ i + Len(t) - 1 <= Len(s) /\ SubSeq(s, i, i + Len(t) - 1) = t

\* _.startsWith on two strings
StrStartsWith(s, t) == OccursAt(s, t, 1)

\* s.indexOf(t) as a 1-based position, 0 when t does not occur
IndexOf(s, t) ==
    IF \E i \in 1..Len(s) : OccursAt(s, t, i)
    THEN CHOOSE i \in 1..Len(s) : OccursAt(s, t, i) /\ \A j \in 1..(i - 1) : ~OccursAt(s, t, j)
    ELSE 0

\* s.split(t) for a non-empty separator t
RECURSIVE Split(_, _)
Split(s, t) ==
    LET i == IndexOf(s, t)
    IN  IF i = 0 THEN << s >>
        ELSE << SubSeq(s, 1, i - 1) >> \o Split(Drop(s, i + Len(t) - 1), t)

\* parts.join(t)
RECURSIVE Join(_, _)
Join(parts, t) ==
    IF Len(parts) = 0 THEN << >>
    ELSE IF Len(parts) = 1 THEN parts[1]
    ELSE parts[1] \o t \o Join(Tail(parts), t)

\* the strings of a list, one after the other
RECURSIVE Concat(_)
Concat(fs) == IF Len(fs) = 0 THEN << >> ELSE fs[1] \o Concat(Tail(fs))

\* a < b in the order Array.prototype.sort uses by default (code units)
RECURSIVE StrLess(_, _)
StrLess(a, b) ==
    IF Len(b) = 0 THEN FALSE
    ELSE IF Len(a) = 0 THEN TRUE
    ELSE IF a[1] # b[1] THEN Code[a[1]] < Code[b[1]]
    ELSE StrLess(Tail(a), Tail(b))

(***************************************************************************)
(* lodash 3: _.camelCase                                                   *)
(***************************************************************************)

\* the last index of the run of characters of S that starts at i (i - 1: no run)
RunEnd(s, i, S) ==
    CHOOSE j \in (i - 1)..Len(s) :
        /\ \A k \in i..j : s[k] \in S
        /\ (j = Len(s) \/ s[j + 1] \notin S)

\* string.match(reWords) of lodash 3, from position i on:
\*   upper+(?=upper lower+) | upper? lower+ | upper+ | [0-9]+
RECURSIVE WordsFrom(_, _)
WordsFrom(s, i) ==
    IF i > Len(s) THEN << >>
    ELSE IF IsUpper(s[i]) THEN
        LET j == RunEnd(s, i, Range(Uppers))
            lowerNext == j < Len(s) /\ IsLower(s[j + 1])
        IN  IF lowerNext /\ j > i
            THEN << SubSeq(s, i, j - 1) >> \o WordsFrom(s, j)
            ELSE IF lowerNext
            THEN LET e == RunEnd(s, i + 1, Range(Lowers))
                 IN  << SubSeq(s, i, e) >> \o WordsFrom(s, e + 1)
            ELSE << SubSeq(s, i, j) >> \o WordsFrom(s, j + 1)
    ELSE IF IsLower(s[i]) THEN
        LET e == RunEnd(s, i, Range(Lowers))
        IN  << SubSeq(s, i, e) >> \o WordsFrom(s, e + 1)
    ELSE IF IsDigit(s[i]) THEN
        LET e == RunEnd(s, i, Range(Digits))
        IN  << SubSeq(s, i, e) >> \o WordsFrom(s, e + 1)
    ELSE WordsFrom(s, i + 1)

words(s) == WordsFrom(s, 1)

\* word.charAt(0).toUpperCase() + word.slice(1)
Capitalize(w) == IF Len(w) = 0 THEN w ELSE << ToUpperChar(w[1]) >> \o Tail(w)

\* the compounder of _.camelCase over words[from..]
RECURSIVE CamelFrom(_, _)
CamelFrom(ws, index) ==
    IF index > Len(ws) THEN << >>
    ELSE LET word == ToLowerCase(ws[index])
         IN  (IF index > 1 THEN Capitalize(word) ELSE word) \o CamelFrom(ws, index + 1)

camelCase(s) == CamelFrom(words(s), 1)

(***************************************************************************)
(* JavaScript values and objects                                           *)
(***************************************************************************)

Undefined == [ t |-> "undef", s |-> << >>, kv |-> << >> ]
Str(s) == [ t |-> "str", s |-> s, kv |-> << >> ]
Obj(kv) == [ t |-> "obj", s |-> << >>, kv |-> kv ]
EmptyObject == Obj(<< >>)

IsObj(v) == v.t = "obj"
IsStr(v) == v.t = "str"

\* k is an array index: the canonical decimal text of an integer
\* (keys of ten digits and more lie outside the keys modelled)
IsArrayIndex(k) ==
    /\ Len(k) >= 1
    /\ Len(k) <= 9
    /\ \A i \in DOMAIN k : IsDigit(k[i])
    /\ (k[1] = "0" => Len(k) = 1)

DigitValue(c) == (CHOOSE i \in DOMAIN Digits : Digits[i] = c) - 1

RECURSIVE ToNumber(_)
ToNumber(k) ==
    IF Len(k) = 0 THEN 0
    ELSE 10 * ToNumber(SubSeq(k, 1, Len(k) - 1)) + DigitValue(k[Len(k)])

HasOwn(o, k) == \E i \in DOMAIN o.kv : o.kv[i].k = k

\* v[k]: an own property of an object, a character of a string, else undefined
\* (names inherited from Object.prototype or String.prototype are not among the keys modelled)
Get(v, k) ==
    IF IsObj(v) THEN
        IF HasOwn(v, k) THEN v.kv[CHOOSE i \in DOMAIN v.kv : v.kv[i].k = k].v ELSE Undefined
    ELSE IF IsStr(v) /\ IsArrayIndex(k) /\ ToNumber(k) < Len(v.s) THEN
        Str(<< v.s[ToNumber(k) + 1] >>)
    ELSE Undefined

\* where a new own property k goes in own-property order: array indices
\* ascending first, then the other keys in order of creation
InsertPos(kv, k) ==
    IF IsArrayIndex(k)
    THEN Cardinality({ i \in DOMAIN kv : IsArrayIndex(kv[i].k) /\ ToNumber(kv[i].k) < ToNumber(k) }) + 1
    ELSE Len(kv) + 1

\* v[k] = x in sloppy mode: sets an own property of an object, is ignored on a string
Put(v, k, x) ==
    IF ~IsObj(v) THEN v
    ELSE IF HasOwn(v, k) THEN
        Obj([ i \in DOMAIN v.kv |-> IF v.kv[i].k = k THEN [ k |-> k, v |-> x ] ELSE v.kv[i] ])
    ELSE LET p == InsertPos(v.kv, k)
         IN  Obj(SubSeq(v.kv, 1, p - 1) \o << [ k |-> k, v |-> x ] >> \o SubSeq(v.kv, p, Len(v.kv)))

\* _.keys(o): the own keys in own-property order
keys(o) == [ i \in DOMAIN o.kv |-> o.kv[i].k ]

(***************************************************************************)
(* The tree builder                                                        *)
(***************************************************************************)

\* the text 'require('
RequireOpen == << "r", "e", "q", "u", "i", "r", "e", "(" >>

\* _.startsWith(value, target): undefined reads as '', an object as '[object Object]'
startsWith(value, target) == IsStr(value) /\ StrStartsWith(value.s, target)

\* 'require(\'./' + fullLocation + '\')'
RequireOf(fullLocation) == Str(RequireOpen \o << "'", ".", "/" >> \o fullLocation \o << "'", ")" >>)

\* handleConflicts without line 34: the directory takes the key and the file is dropped
handleConflictsDropsLeaf(treeObject, parentKey) ==
    IF startsWith(Get(treeObject, parentKey), RequireOpen)
    THEN Put(treeObject, parentKey, EmptyObject)
    ELSE treeObject

\* handleConflicts without the test for a Leaf: whatever the key holds is moved
handleConflictsMovesAny(treeObject, parentKey) ==
    IF Get(treeObject, parentKey) # Undefined
    THEN Put(Put(treeObject, parentKey \o exports.appendToConflicts.s, Get(treeObject, parentKey)),
             parentKey, EmptyObject)
    ELSE treeObject

\* handleConflicts(treeObject, parentKey): the treeObject it leaves
handleConflicts(treeObject, parentKey) ==
    IF startsWith(Get(treeObject, parentKey), RequireOpen)
    THEN Put(Put(treeObject, parentKey \o exports.appendToConflicts.s, Get(treeObject, parentKey)),
             parentKey, EmptyObject)
    ELSE treeObject

\* attachFilenameToLeafNode with the filename part itself as the key (no _.camelCase)
attachRawFilenamePart(treeObject, filenamePart, fullLocation, parentKey) ==
    IF parentKey = Undefined
    THEN [ v |-> Put(treeObject, filenamePart, RequireOf(fullLocation)), threw |-> FALSE ]
    ELSE LET resolved == handleConflicts(treeObject, parentKey.s)
             parent == Get(resolved, parentKey.s)
         IN  IF parent = Undefined
             THEN [ v |-> resolved, threw |-> TRUE ]
             ELSE [ v |-> Put(resolved, parentKey.s, Put(parent, filenamePart, RequireOf(fullLocation))),
                    threw |-> FALSE ]

\* attachFilenameToLeafNode: parentKey is Undefined at the root, else Str(key).
\* Returns the treeObject it leaves and whether it threw (treeObject[parentKey]
\* undefined at the assignment of line 55).
attachFilenameToLeafNode(treeObject, filenamePart, fullLocation, parentKey) ==
    IF parentKey = Undefined
    THEN [ v |-> Put(treeObject, camelCase(filenamePart), RequireOf(fullLocation)), threw |-> FALSE ]
    ELSE LET resolved == handleConflicts(treeObject, parentKey.s)
             parent == Get(resolved, parentKey.s)
         IN  IF parent = Undefined
             THEN [ v |-> resolved, threw |-> TRUE ]
             ELSE [ v |-> Put(resolved, parentKey.s,
                              Put(parent, camelCase(filenamePart), RequireOf(fullLocation))),
                    threw |-> FALSE ]

\* The callback of _.reduce at locationParts[i] and the iterations after it,
\* with treeObject the accumulator: the accumulator as the walk leaves it.
RECURSIVE reduceWalk(_, _, _, _, _)
reduceWalk(treeObject, locationParts, i, filenamePart, filename) ==
    IF treeObject = Undefined
    THEN [ v |-> treeObject, threw |-> TRUE ]
    ELSE
        LET locationPart == locationParts[i]
            created == IF Get(treeObject, locationPart) = Undefined
                       THEN Put(treeObject, locationPart, EmptyObject)
                       ELSE treeObject
            last == i = Len(locationParts)
            att == IF last
                   THEN attachFilenameToLeafNode(created, filenamePart, filename, Str(locationPart))
                   ELSE [ v |-> created, threw |-> FALSE ]
        IN  IF last \/ att.threw THEN att
            ELSE LET child == Get(att.v, locationPart)
                     rest == reduceWalk(child, locationParts, i + 1, filenamePart, filename)
                 IN  [ v |-> IF IsObj(child) THEN Put(att.v, locationPart, rest.v) ELSE att.v,
                       threw |-> rest.threw ]

\* filenameToJson(jsonObject, filename): [v |-> jsonObject as mutated, threw |-> a TypeError escaped]
filenameToJson(jsonObject, filename) ==
    LET parts == Split(filename, << sep >>)
        filenamePart == SliceOffEnd(parts[Len(parts)], 3)
        locationParts == SubSeq(parts, 1, Len(parts) - 1)
    IN  IF Len(locationParts) = 0
        THEN attachFilenameToLeafNode(jsonObject, filenamePart, filename, Undefined)
        ELSE reduceWalk(jsonObject, locationParts, 1, filenamePart, filename)

(***************************************************************************)
(* The serializer                                                          *)
(***************************************************************************)

\* array.sort() on strings
RECURSIVE SortStrings(_)
SortStrings(a) ==
    IF Len(a) <= 1 THEN a
    ELSE LET rest == SortStrings(Tail(a))
             n == Cardinality({ i \in DOMAIN rest : StrLess(rest[i], a[1]) })
         IN  SubSeq(rest, 1, n) \o << a[1] >> \o SubSeq(rest, n + 1, Len(rest))

RECURSIVE sortJson(_)
RECURSIVE SortInto(_, _, _, _)
\* the _.forEach of sortJson from ks[i] on, with sorted the object built so far
SortInto(jsonv, ks, i, sorted) ==
    IF i > Len(ks) THEN sorted
    ELSE SortInto(jsonv, ks, i + 1, Put(sorted, ks[i], sortJson(Get(jsonv, ks[i]))))

sortJson(jsonv) ==
    IF ~IsObj(jsonv) THEN jsonv
    ELSE SortInto(jsonv, SortStrings(keys(jsonv)), 1, EmptyObject)

Indent == 4

Spaces(n) == [ i \in 1..n |-> " " ]

\* JSON's escape of one character
EscapeChar(c) ==
    IF c = "\"" THEN << "\\", "\"" >>
    ELSE IF c = "\\" THEN << "\\", "\\" >>
    ELSE IF c = "\n" THEN << "\\", "n" >>
    ELSE << c >>

\* JSON's escapes over a string (by halves, which keeps the evaluation shallow)
RECURSIVE Escape(_)
Escape(s) ==
    IF Len(s) = 0 THEN << >>
    ELSE IF Len(s) = 1 THEN EscapeChar(s[1])
    ELSE LET h == Len(s) \div 2
         IN  Escape(SubSeq(s, 1, h)) \o Escape(SubSeq(s, h + 1, Len(s)))

Quote(s) == << "\"" >> \o Escape(s) \o << "\"" >>

\* JSON.stringify(value, null, 4) at the given depth of indentation
RECURSIVE Stringify(_, _)
RECURSIVE StringifyMembers(_, _, _)
StringifyMembers(o, i, depth) ==
    LET member == Spaces(depth) \o Quote(o.kv[i].k) \o << ":", " " >> \o Stringify(o.kv[i].v, depth)
    IN  IF i = Len(o.kv) THEN member
        ELSE member \o << ",", "\n" >> \o StringifyMembers(o, i + 1, depth)

Stringify(value, depth) ==
    IF IsStr(value) THEN Quote(value.s)
    ELSE IF Len(value.kv) = 0 THEN << "{", "}" >>
    ELSE << "{", "\n" >> \o StringifyMembers(value, 1, depth + Indent)
         \o << "\n" >> \o Spaces(depth) \o << "}" >>

\* text.replace(/"/g, '')
StripQuotes(text) == SelectSeq(text, LAMBDA c : c # "\"")

\* line 179
greedyJsonOf(jsonv) == StripQuotes(Stringify(sortJson(jsonv), 0))

(***************************************************************************)
(* The lazy rewriter                                                       *)
(***************************************************************************)

WordChars == Range(Lowers) \cup Range(Uppers) \cup Range(Digits) \cup { "_" }
\* [\w\.\/]
ArgChars == WordChars \cup { ".", "/" }

\* the text ": require('./" between the two groups of the pattern
PairMiddle == << ":", " " >> \o RequireOpen \o << "'", ".", "/" >>
\* the text "')" that ends the pattern
PairClose == << "'", ")" >>

\* /(\w+): require\('\.\/([\w\.\/]+)'\)/ tried at position i. Both groups are
\* greedy runs followed by a character outside their class, so the longest
\* run is the only candidate.
MatchAt(text, i) ==
    LET keyEnd == RunEnd(text, i, WordChars)
        argStart == keyEnd + 1 + Len(PairMiddle)
        argEnd == IF argStart <= Len(text) THEN RunEnd(text, argStart, ArgChars) ELSE argStart - 1
    IN  [ ok |-> /\ keyEnd >= i
                 /\ OccursAt(text, PairMiddle, keyEnd + 1)
                 /\ argEnd >= argStart
                 /\ OccursAt(text, PairClose, argEnd + 1),
          key |-> SubSeq(text, i, keyEnd),
          arg |-> SubSeq(text, argStart, argEnd),
          end |-> argEnd + Len(PairClose) ]

\* the replacement with $1 where $2 belongs and the reverse
ReplacementSwapped(key, arg) ==
    << "g", "e", "t", " " >> \o arg \o << "(", ")", " ", "{", " ", "r", "e", "t", "u", "r", "n", " " >>
    \o RequireOpen \o << "'", ".", "/" >> \o key \o << "'", ")", ";", " ", "}" >>

\* 'get $1() { return require(\'./$2\'); }'
Replacement(key, arg) ==
    << "g", "e", "t", " " >> \o key \o << "(", ")", " ", "{", " ", "r", "e", "t", "u", "r", "n", " " >>
    \o RequireOpen \o << "'", ".", "/" >> \o arg \o << "'", ")", ";", " ", "}" >>

\* String.prototype.replace with a global pattern, from position i on: the
\* text up to the next match is copied, the match replaced, and the scan
\* goes on behind the match
RECURSIVE ReplaceFrom(_, _)
ReplaceFrom(text, i) ==
    LET starts == { j \in i..Len(text) : MatchAt(text, j).ok }
    IN  IF starts = { } THEN SubSeq(text, i, Len(text))
        ELSE LET j == CHOOSE x \in starts : \A y \in starts : x <= y
                 m == MatchAt(text, j)
             IN  SubSeq(text, i, j - 1) \o Replacement(m.key, m.arg) \o ReplaceFrom(text, m.end + 1)

convertToLazyRequireJson(text) == ReplaceFrom(text, 1)

\* util.format(indexTemplate, header, lazyJson), header and lazyJson strings
indexTemplate(header, lazy) ==
    << "/", "*", "*", "\n" >> \o header \o << "\n", " ", "*", "/", "\n" >>
    \o << "m", "o", "d", "u", "l", "e", ".", "e", "x", "p", "o", "r", "t", "s", " ", "=", " " >>
    \o lazy \o << ";" >>

(***************************************************************************)
(* module.exports                                                          *)
(***************************************************************************)

Fn(name) == [ t |-> "fn", s |-> name, kv |-> << >> ]

\* process.cwd() on the host
Cwd(sepc) == IF sepc = "/" THEN << "/", "w" >> ELSE << "C", ":", "\\", "w" >>

IndexJs == << "i", "n", "d", "e", "x", ".", "j", "s" >>
DotJs == << ".", "j", "s" >>
NodeModules == << "n", "o", "d", "e", "_", "m", "o", "d", "u", "l", "e", "s" >>
Js == << "J", "s" >>

\* lines 204-207 (with ' for each backquote, which a TLA+ string cannot hold)
DefaultHeader ==
    << " ", "T", "h", "i", "s", " ", "f", "i", "l", "e", " ", "i", "s", " ",
       "a", "u", "t", "o", "-", "g", "e", "n", "e", "r", "a", "t", "e", "d", " ",
       "b", "y", " ", "'", "p", "a", "c", "h", "y", "d", "e", "r", "m", "'", ".", "\n",
       " ", "h", "t", "t", "p", "s", ":", "/", "/", "w", "w", "w", ".", "n", "p", "m", "j", "s", ".",
       "c", "o", "m", "/", "p", "a", "c", "k", "a", "g", "e", "/",
       "p", "a", "c", "h", "y", "d", "e", "r", "m" >>

\* the predicate of lines 197-203
defaultShouldBeIndexed(filename) ==
    /\ SliceLast(filename, 3) = DotJs
    /\ SliceLast(filename, 8) # IndexJs
    /\ IndexOf(filename, NodeModules) = 0

\* a predicate a caller supplies: every .js file, index.js included
EveryJs == << "e", "v", "e", "r", "y", "J", "s" >>
DefaultFn == << "d", "e", "f", "a", "u", "l", "t" >>

\* module.exports.shouldBeIndexed(filename), fn the function held by the option
shouldBeIndexed(fn, filename) ==
    IF fn = Fn(DefaultFn) THEN defaultShouldBeIndexed(filename)
    ELSE SliceLast(filename, 3) = DotJs

\* module.exports as the module body leaves it (lines 193-209), without `go`
moduleExports(sepc) ==
    [ directory |-> Str(Cwd(sepc)),
      output |-> Str(Cwd(sepc) \o << sepc >> \o IndexJs),
      shouldBeIndexed |-> Fn(DefaultFn),
      header |-> Str(DefaultHeader),
      appendToConflicts |-> Str(Js) ]

(***************************************************************************)
(* Tree builder runs: filenameToJson called on one tree, path after path   *)
(***************************************************************************)

MaxInserts == 3

ov == << "o", "v" >>
su == << "s", "u" >>
JsFile(name) == name \o DotJs

\* relative paths as lists of segments, joined by path.sep when handed over
TreePaths ==
    { << JsFile(ov) >>,
      << ov, JsFile(su) >>,
      << ov, su, JsFile(<< "t", "a" >>) >>,
      << JsFile(<< "9" >>) >>,
      << JsFile(<< "1", "0" >>) >>,
      << JsFile(<< "a", "-", "b" >>) >>,
      << su, JsFile(<< "a", "c", ".", "p", "a" >>) >>,
      << << "a", "-", "b" >>, JsFile(<< "x" >>) >>,
      << JsFile(ov \o Js) >> }

\* values of appendToConflicts: the default and one a caller sets
Markers == { Js, << "_", "c" >> }

NoRuns == << >>

Init ==
    /\ sep \in { "/", "\\" }
    /\ \E m \in Markers : exports = [ moduleExports(sep) EXCEPT !.appendToConflicts = Str(m) ]
    /\ json = EmptyObject
    /\ threw = FALSE
    /\ hist = << >>
    /\ run = NoRuns
    /\ writes = << >>
    /\ logged = << >>
    /\ jsonString = << >>
    /\ lazyJson = Undefined

\* one call filenameToJson(json, filename); a TypeError ends the process
Insert(p) ==
    /\ ~threw
    /\ Len(hist) < MaxInserts
    /\ LET filename == Join(p, << sep >>)
           r == filenameToJson(json, filename)
       IN  /\ json' = r.v
           /\ threw' = r.threw
           /\ hist' = Append(hist, p)
    /\ UNCHANGED << sep, exports, run, writes, logged, jsonString, lazyJson >>

Next == \E p \in TreePaths : Insert(p)

Spec == Init /\ [][Next]_vars

(***************************************************************************)
(* Reading a tree                                                          *)
(***************************************************************************)

\* the node reached from tree by the keys of ks; Undefined when there is none
RECURSIVE NodeAt(_, _)
NodeAt(tree, ks) ==
    IF Len(ks) = 0 THEN tree
    ELSE IF ~IsObj(tree) THEN Undefined
    ELSE NodeAt(Get(tree, ks[1]), Tail(ks))

\* the leaves of a tree: << key path, text of the leaf >>
RECURSIVE LeavesOf(_)
LeavesOf(v) ==
    IF IsStr(v) THEN { << << >>, v.s >> }
    ELSE UNION { { << << v.kv[i].k >> \o l[1], l[2] >> : l \in LeavesOf(v.kv[i].v) } : i \in DOMAIN v.kv }

\* the key paths of all keys of a tree, namespaces and leaves alike
RECURSIVE KeyPathsOf(_)
KeyPathsOf(v) ==
    IF ~IsObj(v) THEN { }
    ELSE UNION { { << v.kv[i].k >> } \cup { << v.kv[i].k >> \o q : q \in KeyPathsOf(v.kv[i].v) }
                 : i \in DOMAIN v.kv }

\* the Namespace Nodes of a tree, the root included
RECURSIVE NodesOf(_)
NodesOf(v) ==
    IF ~IsObj(v) THEN { }
    ELSE { v } \cup UNION { NodesOf(v.kv[i].v) : i \in DOMAIN v.kv }

Contains(text, t) == IndexOf(text, t) # 0

DirsOf(p) == SubSeq(p, 1, Len(p) - 1)
\* the filename segment without its '.js'
NameOf(p) == SliceOffEnd(p[Len(p)], 3)
\* the key path the spec gives the leaf of p: raw directory names, then the identifier
KeyPathOf(p) == DirsOf(p) \o << camelCase(NameOf(p)) >>
FilenameOf(p) == Join(p, << sep >>)
Marker == exports.appendToConflicts.s

\* the tree after the paths q[i..] are inserted into tree in order
RECURSIVE BuildFrom(_, _, _)
BuildFrom(tree, q, i) ==
    IF i > Len(q) THEN [ v |-> tree, threw |-> FALSE ]
    ELSE LET r == filenameToJson(tree, Join(q[i], << sep >>))
         IN  IF r.threw THEN r ELSE BuildFrom(r.v, q, i + 1)

(***************************************************************************)
(* C1                                                                      *)
(***************************************************************************)

\* C1: inserting the same paths in any other order gives the same serialized
\* tree (stated for the orders that complete without a TypeError).
C1_OrderIndependent ==
    ~threw =>
        \A pi \in Permutations(DOMAIN hist) :
            LET other == BuildFrom(EmptyObject, [ i \in DOMAIN hist |-> hist[pi[i]] ], 1)
            IN  ~other.threw => greedyJsonOf(other.v) = greedyJsonOf(json)

(***************************************************************************)
(* C2                                                                      *)
(***************************************************************************)

\* the node N that holds the immediate parent key K of p, and K
ParentHolder(tree, p) == NodeAt(tree, SubSeq(p, 1, Len(p) - 2))
ParentKey(p) == p[Len(p) - 1]

\* the step that inserts p relocates a Leaf held at N[K]: afterwards
\* N[K + marker] is that Leaf and N[K] a Namespace Node holding the new leaf
C2_Relocates(p) ==
    LET N == ParentHolder(json, p)
        K == ParentKey(p)
        N2 == ParentHolder(json', p)
    IN  (IsObj(N) /\ IsStr(Get(N, K))) =>
            /\ ~threw'
            /\ Get(N2, K \o Marker) = Get(N, K)
            /\ IsObj(Get(N2, K))
            /\ Get(Get(N2, K), camelCase(NameOf(p))) = RequireOf(FilenameOf(p))

\* the step that inserts p, with N[K] a Namespace Node or absent, relocates
\* nothing: N gains at most the key K, and N[K] only the new leaf
C2_ResolverIdle(p) ==
    LET N == ParentHolder(json, p)
        K == ParentKey(p)
        N2 == ParentHolder(json', p)
        before == IF HasOwn(N, K) THEN Get(N, K) ELSE EmptyObject
    IN  (IsObj(N) /\ ~IsStr(Get(N, K))) =>
            /\ ~threw'
            /\ handleConflicts(N, K) = N
            /\ Range(keys(N2)) = Range(keys(N)) \cup { K }
            /\ \A k \in Range(keys(N)) \ { K } : Get(N2, k) = Get(N, k)
            /\ Get(N2, K) = Put(before, camelCase(NameOf(p)), RequireOf(FilenameOf(p)))

C2_Step ==
    \A p \in TreePaths :
        (Len(p) >= 2 /\ ~threw /\ hist' = Append(hist, p)) =>
            (C2_Relocates(p) /\ C2_ResolverIdle(p))

\* the scenario of the spec: overview.js, then overview/summary.js
C2_Scenario ==
    (hist = << << JsFile(ov) >>, << ov, JsFile(su) >> >> /\ Marker = Js) =>
        /\ Range(keys(json)) = { ov, ov \o Js }
        /\ Get(json, ov \o Js) = RequireOf(FilenameOf(<< JsFile(ov) >>))
        /\ Get(json, ov) = Put(EmptyObject, su, RequireOf(FilenameOf(<< ov, JsFile(su) >>)))

\* C2: a Leaf at the key of the immediate parent directory is moved to
\* key + marker and the key becomes a Namespace Node holding the new leaf;
\* when the key holds a Namespace Node or nothing, nothing is relocated.
C2_ConflictResolved == [] C2_Scenario /\ [][C2_Step]_vars

C2_Witness ==
    /\ Len(hist) >= 2
    /\ hist[1] = << JsFile(ov) >>
    /\ hist[2] = << ov, JsFile(su) >>
    /\ Get(json, ov \o Marker) = RequireOf(FilenameOf(<< JsFile(ov) >>))
    /\ IsObj(Get(json, ov))

(***************************************************************************)
(* C3                                                                      *)
(***************************************************************************)

IsPrefix(a, b) == Len(a) <= Len(b) /\ SubSeq(b, 1, Len(a)) = a

\* no file's identifier is the key of a sibling directory, and no two files
\* of one directory derive the same identifier
C3_NoClash ==
    \A i, j \in DOMAIN hist :
        /\ ~(Len(hist[j]) > Len(hist[i]) /\ IsPrefix(KeyPathOf(hist[i]), DirsOf(hist[j])))
        /\ (hist[i] # hist[j] /\ DirsOf(hist[i]) = DirsOf(hist[j]))
               => camelCase(NameOf(hist[i])) # camelCase(NameOf(hist[j]))

\* C3: without such clashes the tree holds exactly, for each inserted path,
\* the leaf requiring that path at the key path [d1, ..., dn, identifier(f)],
\* and no key besides those on these key paths.
C3_MirrorsNesting ==
    C3_NoClash =>
        /\ ~threw
        /\ LeavesOf(json) = { << KeyPathOf(hist[i]), RequireOf(FilenameOf(hist[i])).s >> : i \in DOMAIN hist }
        /\ KeyPathsOf(json) =
               UNION { { SubSeq(KeyPathOf(hist[i]), 1, n) : n \in 1..Len(hist[i]) } : i \in DOMAIN hist }

C3_Witness ==
    /\ C3_NoClash
    /\ Len(hist) = 3
    /\ \E i \in DOMAIN hist : Len(hist[i]) = 1
    /\ \E i \in DOMAIN hist : Len(hist[i]) = 3
    /\ \E i \in DOMAIN hist : camelCase(NameOf(hist[i])) # NameOf(hist[i])

(***************************************************************************)
(* C4, C5, C8                                                              *)
(***************************************************************************)

\* C4: in the serialized tree the keys of every Namespace Node follow each
\* other in strictly ascending code-unit order (JSON.stringify writes the
\* members of sortJson's result in own-property order).
C4_KeysAscending ==
    \A n \in NodesOf(sortJson(json)) :
        \A i \in 1..(Len(n.kv) - 1) : StrLess(n.kv[i].k, n.kv[i + 1].k)

\* the argument of a leaf: the text between "require('./" and "')"
ArgOf(leaf) == SubSeq(leaf, Len(RequireOpen) + 4, Len(leaf) - 2)

\* C5: for every leaf of the tree the generated text holds its accessor
\* `get key() { return require('./path'); }` and no eager `key: require('./path')`.
C5_EveryLeafLazy ==
    ~threw =>
        LET text == convertToLazyRequireJson(greedyJsonOf(json))
        IN  \A l \in LeavesOf(json) :
                LET key == l[1][Len(l[1])]
                IN  /\ Contains(text, Replacement(key, ArgOf(l[2])))
                    /\ ~Contains(text, key \o << ":", " " >> \o l[2])

\* C8: the path of every leaf is './' and the segments of an inserted path
\* joined by '/', whatever path.sep is.
C8_ForwardSlashes ==
    \A l \in LeavesOf(json) :
        \E i \in DOMAIN hist : l[2] = RequireOf(Join(hist[i], << "/" >>)).s

(***************************************************************************)
(* C11                                                                     *)
(***************************************************************************)

\* the step that inserts p, for each directory segment K = p[i] before the
\* immediate parent at which the node N reached holds a Leaf: afterwards
\* N[K + marker] is that Leaf, N[K] a Namespace Node, and the new leaf hangs
\* below it under the remaining segments
C11_Relocates(p) ==
    \A i \in 1..(Len(p) - 2) :
        LET N == NodeAt(json, SubSeq(p, 1, i - 1))
            K == p[i]
            N2 == NodeAt(json', SubSeq(p, 1, i - 1))
        IN  (IsObj(N) /\ IsStr(Get(N, K))) =>
                /\ ~threw'
                /\ Get(N2, K \o Marker) = Get(N, K)
                /\ IsObj(Get(N2, K))
                /\ NodeAt(json', KeyPathOf(p)) = RequireOf(FilenameOf(p))

\* C11: a Leaf at the key of a directory segment that is not the immediate
\* parent is moved to key + marker, the key becomes a Namespace Node, and
\* the insert completes with the new leaf attached below it.
C11_AncestorResolved ==
    [][ \A p \in TreePaths :
            (Len(p) >= 3 /\ ~threw /\ hist' = Append(hist, p)) => C11_Relocates(p) ]_vars

(***************************************************************************)
(* C14                                                                     *)
(***************************************************************************)

\* the Identifiers of the segments of the paths inserted: of each directory
\* name and of each filename without its '.js'
IdentifiersOf(paths) ==
    UNION { { camelCase(paths[i][n]) : n \in 1..(Len(paths[i]) - 1) } \cup { camelCase(NameOf(paths[i])) }
            : i \in DOMAIN paths }

\* C14: every key of the tree, of a Namespace Node as of a Leaf, is the
\* Identifier of a segment of an inserted path, or such an Identifier with
\* the marker appended by the Conflict Resolver.
C14_KeysAreIdentifiers ==
    \A kp \in KeyPathsOf(json) :
        \A n \in DOMAIN kp :
            \/ kp[n] \in IdentifiersOf(hist)
            \/ \E id \in IdentifiersOf(hist) : kp[n] = id \o Marker

(***************************************************************************)
(* C15                                                                     *)
(***************************************************************************)

\* the last insert repeated the one before it
C15_Repeated == Len(hist) >= 2 /\ hist[Len(hist)] = hist[Len(hist) - 1]

\* C15: inserting a path again right after it was inserted changes nothing:
\* the tree after p, p is the tree after p alone, and from every tree
\* reached a path that inserts without a TypeError inserts again to the
\* same tree.
C15_SecondInsertNoOp ==
    /\ C15_Repeated =>
           /\ ~threw
           /\ json = BuildFrom(EmptyObject, SubSeq(hist, 1, Len(hist) - 1), 1).v
    /\ ~threw =>
           \A p \in TreePaths :
               LET once == filenameToJson(json, FilenameOf(p))
               IN  ~once.threw => filenameToJson(once.v, FilenameOf(p)) = once

\* overview.js, then overview/summary.js twice: the first of the two moved the Leaf
C15_Witness ==
    /\ hist = << << JsFile(ov) >>, << ov, JsFile(su) >>, << ov, JsFile(su) >> >>
    /\ Get(json, ov \o Marker) = RequireOf(FilenameOf(<< JsFile(ov) >>))
    /\ Get(json, ov) = Put(EmptyObject, su, RequireOf(FilenameOf(<< ov, JsFile(su) >>)))

(***************************************************************************)
(* C17                                                                     *)
(***************************************************************************)

\* no path inserted after hist[i] derives the key path of hist[i]
C17_NotReplaced(i) ==
    \A j \in DOMAIN hist : j > i => KeyPathOf(hist[j]) # KeyPathOf(hist[i])

\* the leaf of hist[i] is in the tree, below its directories, at its
\* Identifier or at that key with the marker appended
C17_Kept(i) ==
    \E l \in LeavesOf(json) :
        /\ l[2] = RequireOf(FilenameOf(hist[i])).s
        /\ \/ l[1] = KeyPathOf(hist[i])
           \/ l[1] = DirsOf(hist[i]) \o << camelCase(NameOf(hist[i])) \o Marker >>

\* C17: after any sequence of inserts that completed, the leaf of every
\* path inserted is still in the tree, at its key or at key + marker,
\* unless a later path with the same key path replaced it.
C17_NothingDiscarded ==
    ~threw => \A i \in DOMAIN hist : C17_NotReplaced(i) => C17_Kept(i)

(***************************************************************************)
(* go: runs over a file system, sharing module.exports                     *)
(***************************************************************************)

MaxRuns == 2

Options == { "directory", "output", "shouldBeIndexed", "header", "appendToConflicts" }

\* a directory besides the working directory
OtherRoot(sepc) == IF sepc = "/" THEN << "/", "r" >> ELSE << "C", ":", "\\", "r" >>

\* the files below each directory, as lists of segments
FilesUnder(dir) ==
    IF dir = Cwd(sep)
    THEN { << IndexJs >>, << ov, JsFile(su) >> }
    ELSE IF dir = OtherRoot(sep)
    THEN { << << "l" >>, << "r" >>, JsFile(<< "x" >>) >>, << JsFile(<< "y" >>) >> }
    ELSE { }

\* path.isAbsolute on the host
IsAbsolute(path) ==
    IF sep = "/" THEN StrStartsWith(path, << "/" >>)
    ELSE Len(path) >= 3 /\ path[2] = ":" /\ path[3] = "\\"

\* path.resolve(path), for paths without '.', '..' or doubled separators
resolve(path) ==
    LET abs == IF IsAbsolute(path) THEN path ELSE Cwd(sep) \o << sep >> \o path
    IN  IF Len(abs) > 1 /\ abs[Len(abs)] = sep /\ abs # Cwd(sep) THEN SliceOffEnd(abs, 1) ELSE abs

\* _.defaults(rules, module.exports): rules with each undefined option filled in
defaults(rules, source) ==
    [ o \in Options |-> IF rules[o] = Undefined THEN source[o] ELSE rules[o] ]

NoRules == [ o \in Options |-> Undefined ]
RelativeOutput == << "o", ".", "j", "s" >>
ShortHeader == << " ", "h" >>

\* a rules object that sets directory, output and header
OtherDirectoryRules ==
    [ NoRules EXCEPT !.directory = Str(OtherRoot(sep)), !.output = Str(RelativeOutput),
                     !.header = Str(ShortHeader) ]

\* a rules object that sets appendToConflicts and shouldBeIndexed
OtherMarkerRules ==
    [ NoRules EXCEPT !.appendToConflicts = Str(<< "_", "c" >>), !.shouldBeIndexed = Fn(EveryJs) ]

\* the rules objects callers hand to go, one run after the other
RuleSets == { NoRules, OtherDirectoryRules, OtherMarkerRules }

\* the rules objects handed to go when runs may overlap
OverlapRuleSets == { NoRules, OtherDirectoryRules }

\* the process before the first call of go
InitRun ==
    /\ sep \in { "/", "\\" }
    /\ exports = moduleExports(sep)
    /\ json = EmptyObject
    /\ threw = FALSE
    /\ hist = << >>
    /\ run = NoRuns
    /\ writes = << >>
    /\ logged = << >>
    /\ jsonString = << >>
    /\ lazyJson = Undefined

\* go(rules), lines 161-168: the closure of a new run
Go(rules) ==
    /\ ~threw
    /\ Len(run) < MaxRuns
    /\ LET merged == defaults(rules, exports)
           directory == resolve(merged.directory.s)
       IN  /\ exports' = merged
           /\ run' = Append(run, [ pc |-> "walking",
                                   json |-> EmptyObject,
                                   oldRules |-> exports,
                                   directory |-> directory,
                                   pending |-> FilesUnder(directory),
                                   fed |-> { },
                                   rules |-> rules,
                                   err |-> FALSE ])
    /\ UNCHANGED << sep, json, threw, hist, writes, logged, jsonString, lazyJson >>

\* the absolute path the walk of directory emits for the file f below it
Emitted(directory, f) == directory \o << sep >> \o Join(f, << sep >>)

\* lines 172-173: the filename handed to filenameToJson for an emitted path
stripRoot(filename, directory) ==
    LET stripped == Split(filename, directory)[2]
    IN  IF StrStartsWith(stripped, << "/" >>) THEN Drop(stripped, 1) ELSE stripped

\* the 'file' handler with one tree for the whole module instead of line 162:
\* every run inserts into the tree of the first
FileFoundSharedTree(r, f) ==
    /\ ~threw
    /\ run[r].pc = "walking"
    /\ f \in run[r].pending
    /\ LET filename == Emitted(run[r].directory, f)
           indexed == shouldBeIndexed(exports.shouldBeIndexed, filename)
           relative == stripRoot(filename, run[r].directory)
           res == IF indexed THEN filenameToJson(run[1].json, relative)
                  ELSE [ v |-> run[1].json, threw |-> FALSE ]
           fed == [ run EXCEPT ![r].pending = @ \ { f },
                               ![r].fed = IF indexed THEN @ \cup { << f, relative >> } ELSE @,
                               ![r].pc = IF res.threw THEN "threw" ELSE @ ]
       IN  /\ run' = [ fed EXCEPT ![1].json = res.v ]
           /\ threw' = res.threw
    /\ UNCHANGED << sep, exports, json, hist, writes, logged, jsonString, lazyJson >>

\* the 'file' handler of run r, lines 170-176, on a file the walk emits;
\* fed records what it hands to filenameToJson
FileFound(r, f) ==
    /\ ~threw
    /\ run[r].pc = "walking"
    /\ f \in run[r].pending
    /\ LET filename == Emitted(run[r].directory, f)
           indexed == shouldBeIndexed(exports.shouldBeIndexed, filename)
           relative == stripRoot(filename, run[r].directory)
           res == IF indexed THEN filenameToJson(run[r].json, relative)
                  ELSE [ v |-> run[r].json, threw |-> FALSE ]
       IN  /\ run' = [ run EXCEPT ![r].json = res.v,
                                  ![r].pending = @ \ { f },
                                  ![r].fed = IF indexed THEN @ \cup { << f, relative >> } ELSE @,
                                  ![r].pc = IF res.threw THEN "threw" ELSE @ ]
           /\ threw' = res.threw
    /\ UNCHANGED << sep, exports, json, hist, writes, logged, jsonString, lazyJson >>

\* the 'end' handler without line 188: the rules of the run stay in module.exports
EndWithoutRestore(r) ==
    /\ ~threw
    /\ run[r].pc = "walking"
    /\ run[r].pending = { }
    /\ LET greedyJson == greedyJsonOf(run[r].json)
           lazy == convertToLazyRequireJson(greedyJson)
           toWrite == indexTemplate(exports.header.s, lazy)
       IN  writes' = Append(writes, [ by |-> r, to |-> resolve(exports.output.s), data |-> toWrite ])
    /\ run' = [ run EXCEPT ![r].pc = "writing" ]
    /\ UNCHANGED << sep, exports, json, threw, hist, logged, jsonString, lazyJson >>

\* the 'end' handler of run r, lines 178-189
End(r) ==
    /\ ~threw
    /\ run[r].pc = "walking"
    /\ run[r].pending = { }
    /\ LET greedyJson == greedyJsonOf(run[r].json)
           lazy == convertToLazyRequireJson(greedyJson)
           toWrite == indexTemplate(exports.header.s, lazy)
       IN  writes' = Append(writes, [ by |-> r, to |-> resolve(exports.output.s), data |-> toWrite ])
    /\ exports' = run[r].oldRules
    /\ run' = [ run EXCEPT ![r].pc = "writing" ]
    /\ UNCHANGED << sep, json, threw, hist, logged, jsonString, lazyJson >>

\* the callback of fs.writeFile without the test of err: it always logs
WriteDoneAlwaysLogs(r, err) ==
    /\ ~threw
    /\ run[r].pc = "writing"
    /\ logged' = Append(logged, [ by |-> r, output |-> exports.output ])
    /\ run' = [ run EXCEPT ![r].pc = "done", ![r].err = err ]
    /\ UNCHANGED << sep, exports, json, threw, hist, writes, jsonString, lazyJson >>

\* the callback of fs.writeFile of run r, lines 182-186, called with err or without
WriteDone(r, err) ==
    /\ ~threw
    /\ run[r].pc = "writing"
    /\ logged' = IF ~err THEN Append(logged, [ by |-> r, output |-> exports.output ]) ELSE logged
    /\ run' = [ run EXCEPT ![r].pc = "done", ![r].err = err ]
    /\ UNCHANGED << sep, exports, json, threw, hist, writes, jsonString, lazyJson >>

NextRun ==
    \/ \E rules \in OverlapRuleSets : Go(rules)
    \/ \E r \in DOMAIN run : \E f \in run[r].pending : FileFound(r, f)
    \/ \E r \in DOMAIN run : End(r)
    \/ \E r \in DOMAIN run : \E err \in BOOLEAN : WriteDone(r, err)

\* any interleaving of the events of up to MaxRuns runs
SpecRun == InitRun /\ [][NextRun]_vars

\* no run is between its start and its traversal completion
NoneWalking == \A r \in DOMAIN run : run[r].pc # "walking"

NextSeq ==
    \/ \E rules \in RuleSets : NoneWalking /\ Go(rules)
    \/ \E r \in DOMAIN run : \E f \in run[r].pending : FileFound(r, f)
    \/ \E r \in DOMAIN run : End(r)
    \/ \E r \in DOMAIN run : \E err \in BOOLEAN : WriteDone(r, err)

\* strictly sequential runs: go is called only after the previous traversal completed
SpecSeq == InitRun /\ [][NextSeq]_vars

(***************************************************************************)
(* C6                                                                      *)
(***************************************************************************)

\* the value run r is to see for each option: its own, or the process-wide
\* default from before it started where its rules leave the option unset
Configured(r) ==
    [ o \in Options |-> IF run[r].rules[o] # Undefined THEN run[r].rules[o] ELSE run[r].oldRules[o] ]

Completed(r) == run[r].pc \in { "writing", "done" }

WritesBy(r) == { i \in DOMAIN writes : writes[i].by = r }

\* the head of the generated text for a header
HeaderPart(header) == << "/", "*", "*", "\n" >> \o header \o << "\n", " ", "*", "/", "\n" >>

\* C6: with runs strictly one after the other, module.exports (which every
\* handler reads its options from) holds the run's configured values while
\* the run walks, the header and the output read at traversal completion are
\* the configured ones, and from the traversal completion on the defaults
\* are those from before the run: every run starts from the same defaults.
C6_OverrideAndRestore ==
    \A r \in DOMAIN run :
        /\ run[r].oldRules = moduleExports(sep)
        /\ run[r].directory = resolve(Configured(r).directory.s)
        /\ run[r].pc = "walking" => exports = Configured(r)
        /\ Completed(r) =>
               /\ \A i \in WritesBy(r) :
                      /\ writes[i].to = resolve(Configured(r).output.s)
                      /\ StrStartsWith(writes[i].data, HeaderPart(Configured(r).header.s))
               /\ WritesBy(r) # { }
               /\ (r = Len(run) => exports = run[r].oldRules)

C6_Witness ==
    /\ Len(run) = 2
    /\ run[1].rules = OtherDirectoryRules
    /\ run[2].rules = OtherMarkerRules
    /\ Completed(1)
    /\ Completed(2)
    /\ exports = moduleExports(sep)

(***************************************************************************)
(* C7                                                                      *)
(***************************************************************************)

\* the output location configured for run r: its own, or the default
OwnOutput(r) ==
    IF run[r].rules.output # Undefined THEN run[r].rules.output ELSE moduleExports(sep).output

\* C7: in any interleaving each run has made exactly one write once its
\* traversal completed and none before, addressed to its own output location.
C7_OneWriteToOwnOutput ==
    \A r \in DOMAIN run :
        /\ Cardinality(WritesBy(r)) = IF Completed(r) THEN 1 ELSE 0
        /\ \A i \in WritesBy(r) : writes[i].to = resolve(OwnOutput(r).s)

(***************************************************************************)
(* C10                                                                     *)
(***************************************************************************)

LogsBy(r) == { i \in DOMAIN logged : logged[i].by = r }

\* a run whose write failed has logged nothing and written once; a notice
\* is there only for a write that completed without error
C10_State ==
    \A r \in DOMAIN run :
        /\ Cardinality(WritesBy(r)) <= 1
        /\ Cardinality(LogsBy(r)) = IF run[r].pc = "done" /\ ~run[r].err THEN 1 ELSE 0

\* the step in which the write of run r completes with an error throws
\* nothing, writes nothing and logs nothing; and the log grows by a notice
\* only in a step in which a write completes without error
C10_Step ==
    /\ \A r \in DOMAIN run :
           (run[r].pc = "writing" /\ run'[r].pc = "done" /\ run'[r].err) =>
               (logged' = logged /\ writes' = writes /\ ~threw')
    /\ logged' # logged =>
           \E r \in DOMAIN run :
               /\ run[r].pc = "writing" /\ run'[r].pc = "done" /\ ~run'[r].err
               /\ Len(logged') = Len(logged) + 1
               /\ logged'[Len(logged')].by = r

\* C10: a write that completes with an error is silent and not retried, and
\* the success notice is logged only for a write that completed without error.
C10_SilentWriteFailure == [] C10_State /\ [][C10_Step]_vars

C10_Witness ==
    \E r, q \in DOMAIN run :
        /\ run[r].pc = "done" /\ run[r].err /\ LogsBy(r) = { } /\ Cardinality(WritesBy(r)) = 1
        /\ run[q].pc = "done" /\ ~run[q].err /\ LogsBy(q) # { }

(***************************************************************************)
(* C12                                                                     *)
(***************************************************************************)

\* C12: what a run hands to the tree builder for an accepted file is the
\* emitted path without the root and without one leading separator: the
\* whole path of the file below the root.
C12_WholeRemainder ==
    \A r \in DOMAIN run :
        \A e \in run[r].fed :
            /\ Emitted(run[r].directory, e[1]) = run[r].directory \o << sep >> \o e[2]
            /\ e[2] = Join(e[1], << sep >>)

(***************************************************************************)
(* C13                                                                     *)
(***************************************************************************)

\* the characters the host takes for separators when it resolves a path
HostSeparators == IF sep = "/" THEN { "/" } ELSE { "/", "\\" }

\* the segments of a path, from position i on
RECURSIVE SegmentsFrom(_, _)
SegmentsFrom(path, i) ==
    IF i > Len(path) THEN << >>
    ELSE LET cuts == { j \in i..Len(path) : path[j] \in HostSeparators }
             j == IF cuts = { } THEN Len(path) + 1 ELSE CHOOSE x \in cuts : \A y \in cuts : x <= y
         IN  << SubSeq(path, i, j - 1) >> \o SegmentsFrom(path, j + 1)

\* the directory a file lies in
DirnameOf(path) ==
    LET cuts == { j \in DOMAIN path : path[j] = sep }
    IN  SubSeq(path, 1, (CHOOSE x \in cuts : \A y \in cuts : x >= y) - 1)

\* a relative path resolved against a directory: empty segments and '.' are skipped
ResolveFrom(dir, rel) ==
    LET segs == SelectSeq(SegmentsFrom(rel, 1), LAMBDA g : g # << >> /\ g # << "." >>)
    IN  dir \o Concat([ i \in DOMAIN segs |-> << sep >> \o segs[i] ])

\* C13: in the tree a run wrote, the path of every leaf, resolved against
\* the directory of the file written, names a file the run indexed.
C13_RelativeToOutput ==
    \A r \in DOMAIN run :
        \A i \in WritesBy(r) :
            \A l \in LeavesOf(run[r].json) :
                ResolveFrom(DirnameOf(writes[i].to), ArgOf(l[2])) \in
                    { Emitted(run[r].directory, e[1]) : e \in run[r].fed }

(***************************************************************************)
(* C16                                                                     *)
(***************************************************************************)

\* the tree of a run holds leaves only for what its own traversal emitted
\* and its handler handed to the tree builder
C16_OwnLeaves ==
    \A r \in DOMAIN run :
        /\ \A e \in run[r].fed : e[1] \in FilesUnder(run[r].directory) \ run[r].pending
        /\ \A l \in LeavesOf(run[r].json) : \E e \in run[r].fed : l[2] = RequireOf(e[2]).s

\* a step changes the tree of a run only if it is a path-found event of
\* that run, and then it leaves the other runs as they are
C16_Step ==
    \A r \in DOMAIN run :
        run'[r].json # run[r].json =>
            /\ run[r].pc = "walking"
            /\ \E f \in run[r].pending : run'[r].pending = run[r].pending \ { f }
            /\ \A q \in DOMAIN run' : q # r => run'[q] = run[q]

\* C16: in any interleaving of the events of the runs, no event of one run
\* changes the tree of another, and the tree a run serializes holds leaves
\* only for paths of its own traversal.
C16_TreesNotShared == [] C16_OwnLeaves /\ [][C16_Step]_vars

\* two runs over different directories, walking at the same time, each with
\* leaves in its tree
C16_Witness ==
    /\ Len(run) >= 2
    /\ run[1].directory # run[2].directory
    /\ run[1].pc = "walking" /\ run[2].pc = "walking"
    /\ LeavesOf(run[1].json) # { } /\ LeavesOf(run[2].json) # { }
    /\ run[1].json # run[2].json

(***************************************************************************)
(* C18, C19                                                                *)
(***************************************************************************)

\* C18: once every run started has reached its traversal completion, in
\* whatever order the runs started and completed, module.exports holds the
\* values from before the first run.
C18_RestoredAfterOverlap ==
    (run # NoRuns /\ \A r \in DOMAIN run : Completed(r)) => exports = moduleExports(sep)

\* C19: the output location a notice reports is the location that run's
\* write was addressed to.
C19_NoticeNamesWrite ==
    \A i \in DOMAIN logged :
        \E w \in WritesBy(logged[i].by) : writes[w].to = resolve(logged[i].output.s)

(***************************************************************************)
(* convertToLazyRequireJson on bounded texts                               *)
(***************************************************************************)

MaxFragments == 3

Fragments ==
    { << "k" >>,
      << "-" >>,
      PairMiddle,
      << "x", ".", "j", "s" >> \o PairClose,
      << "x", "-", "y", ".", "j", "s" >> \o PairClose,
      << "a", "B" >> \o PairMiddle \o << "d", "/", "x", ".", "j", "s" >> \o PairClose,
      << ",", "\n", " ", " ", " ", " " >>,
      << "K", "_", "1" >>,
      RequireOpen \o << "'", ".", "/", "x", ".", "j", "s" >> \o PairClose,
      << " " >> }

Texts == { Concat(fs) : fs \in UNION { [ 1..n -> Fragments ] : n \in 0..MaxFragments } }

InitText ==
    /\ sep = "/"
    /\ exports = moduleExports(sep)
    /\ json = EmptyObject
    /\ threw = FALSE
    /\ hist = << >>
    /\ run = NoRuns
    /\ writes = << >>
    /\ logged = << >>
    /\ jsonString \in Texts
    /\ lazyJson = Undefined

\* line 180 on the text at hand
Convert ==
    /\ lazyJson = Undefined
    /\ lazyJson' = Str(convertToLazyRequireJson(jsonString))
    /\ UNCHANGED << sep, exports, json, threw, hist, run, writes, logged, jsonString >>

NextText == Convert

SpecText == InitText /\ [][NextText]_vars

(***************************************************************************)
(* C9                                                                      *)
(***************************************************************************)

GetOpen == << "g", "e", "t", " " >>
AccessorMiddle ==
    << "(", ")", " ", "{", " ", "r", "e", "t", "u", "r", "n", " " >> \o RequireOpen \o << "'", ".", "/" >>
AccessorClose == << "'", ")", ";", " ", "}" >>

\* an accessor `get key() { return require('./arg'); }` at position i
AccessorAt(text, i) ==
    LET keyStart == i + Len(GetOpen)
        keyEnd == IF keyStart <= Len(text) THEN RunEnd(text, keyStart, WordChars) ELSE keyStart - 1
        argStart == keyEnd + 1 + Len(AccessorMiddle)
        argEnd == IF argStart <= Len(text) THEN RunEnd(text, argStart, ArgChars) ELSE argStart - 1
    IN  [ ok |-> /\ OccursAt(text, GetOpen, i)
                 /\ keyEnd >= keyStart
                 /\ OccursAt(text, AccessorMiddle, keyEnd + 1)
                 /\ argEnd >= argStart
                 /\ OccursAt(text, AccessorClose, argEnd + 1),
          key |-> SubSeq(text, keyStart, keyEnd),
          arg |-> SubSeq(text, argStart, argEnd),
          end |-> argEnd + Len(AccessorClose) ]

\* the text with every accessor turned back into `key: require('./arg')`
RECURSIVE Eager(_, _)
Eager(text, i) ==
    LET starts == { j \in i..Len(text) : AccessorAt(text, j).ok }
    IN  IF starts = { } THEN SubSeq(text, i, Len(text))
        ELSE LET j == CHOOSE x \in starts : \A y \in starts : x <= y
                 a == AccessorAt(text, j)
             IN  SubSeq(text, i, j - 1) \o a.key \o PairMiddle \o a.arg \o PairClose
                 \o Eager(text, a.end + 1)

\* the ends of the keys of the pairs `key: require('./arg')` of a text
PairsOf(text) ==
    { e \in DOMAIN text :
        /\ IsWordChar(text[e])
        /\ OccursAt(text, PairMiddle, e + 1)
        /\ \E n \in (e + Len(PairMiddle) + 1)..Len(text) :
               /\ \A k \in (e + Len(PairMiddle) + 1)..n : text[k] \in ArgChars
               /\ OccursAt(text, PairClose, n + 1) }

AccessorsOf(text) == { j \in DOMAIN text : AccessorAt(text, j).ok }

\* C9: the text returned differs from the text given only in that every pair
\* `key: require('./arg')` has become `get key() { return require('./arg'); }`
\* with the same key and arg: turning the accessors back gives the text
\* given, there is one accessor per pair, and no pair is left.
C9_OnlyPairsRewritten ==
    lazyJson # Undefined =>
        /\ Eager(lazyJson.s, 1) = jsonString
        /\ Cardinality(AccessorsOf(lazyJson.s)) = Cardinality(PairsOf(jsonString))
        /\ PairsOf(lazyJson.s) = { }

C9_Witness ==
    /\ lazyJson # Undefined
    /\ Cardinality(PairsOf(jsonString)) = 2
    /\ Contains(jsonString, << "x", "-", "y", ".", "j", "s" >> \o PairClose)
    /\ Cardinality(AccessorsOf(lazyJson.s)) = 2

====
